---- MODULE Spec2Model ----
(***************************************************************************)
(* Model of the Entelech client monitoring MCP server                      *)
(* (src/src/mcp_server.py) and of the dashboard rollup                     *)
(* (src/dashboard/dashboard.py).                                           *)
(*                                                                         *)
(* Each tool handler of EntelechMonitoringServer is one action.  The       *)
(* answers of the remote endpoints and the success of each sqlite          *)
(* statement are inputs of the actions.  Python floats that come from a    *)
(* division are kept as exact fractions [num, den].                        *)
(***************************************************************************)
EXTENDS Integers, Sequences, FiniteSets, TLC

\* ------------------------------------------------------------------ bounds
MaxEndpoints == 2
MaxHealthRows == 2
MaxPerfRows == 2
MaxThresholdRows == 2
MaxReportRows == 2
MaxStoredRows == 3

\* ------------------------------------------------------- program constants
HealthyUptime == 95
DegradedUptime == 80
DefaultUptime == 100
TimeoutLatencyMs == 10000

ClientIds == {"acme", "globex"}

VARIABLES
    clients,              \* table clients: client_id -> row (or an unregistered marker)
    net,                  \* client_id -> what each of its endpoints answers to /health
    mnet,                 \* client_id -> what each of its endpoints answers to /metrics
    today,                \* the current date, in days
    health_checks,        \* table health_checks, in insertion order
    performance_metrics,  \* table performance_metrics, in insertion order
    healthResult,         \* what the last get_system_health returned
    performance_result,   \* the last PerformanceMetrics object built
    trends,               \* what the last calculate_performance_trends returned
    perfResult,           \* how the last get_performance_metrics ended
    alert_thresholds,     \* table alert_thresholds, in insertion order
    alert_history,        \* table alert_history, in insertion order
    alertResult,          \* what the last alert_on_failures returned
    client_reports,       \* table client_reports, in insertion order
    reportResult,         \* how the last generate_client_reports ended
    clientsStatus,        \* what the last get_all_clients_status returned
    requests,             \* the GETs the last call issued, in order
    fanout,               \* the endpoint loop under way: tool, client, GETs issued, in flight, answered
    lastCall              \* the last call served: tool, client_id, timeframe, sqlite reads

envVars == <<net, mnet, today>>
healthVars == <<health_checks, healthResult>>
perfVars == <<performance_metrics, performance_result, trends, perfResult>>
alertVars == <<alert_thresholds, alert_history, alertResult>>
reportVars == <<client_reports, reportResult, clientsStatus>>
vars == <<clients, envVars, healthVars, perfVars, alertVars, reportVars, lastCall, requests, fanout>>

\* ---------------------------------------------------------------- helpers
Frac(n, d) == [num |-> n, den |-> d]

RECURSIVE SumSeq(_)
SumSeq(s) == IF s = <<>> THEN 0 ELSE Head(s) + SumSeq(Tail(s))

CountStatus(samples, st) ==
    Cardinality({i \in 1..Len(samples) : samples[i].status = st})

\* ------------------------------------------------------------ clients table
NoClient == [registered |-> FALSE, nEndpoints |-> 0, nSystems |-> 0, is_active |-> FALSE]

\* get_client_config: the row, or None when there is none or the read fails
get_client_config(c, readOk) ==
    IF readOk /\ clients[c].registered THEN clients[c] ELSE NoClient

\* systems[i] if i < len(systems) else f"System_{i+1}"   (i is 1-based here)
SystemName(cfg, i) ==
    IF i <= cfg.nSystems THEN [kind |-> "named", idx |-> i]
    ELSE [kind |-> "synthetic", idx |-> i]

\* the GET {endpoint}/health, or /metrics, of every endpoint in turn
Requests(c, cfg, path) ==
    [i \in 1..cfg.nEndpoints |-> [client_id |-> c, endpoint |-> i, path |-> path]]

\* --------------------------------------------------------- health probing
UptimeValues == {70, 79, 80, 94, 95, 100}

\* What one GET {endpoint}/health can do.
HealthOutcomes ==
    [kind : {"ok200"}, has_uptime : {TRUE}, uptime : UptimeValues, rt : {40}]
    \cup [kind : {"ok200"}, has_uptime : {FALSE}, uptime : {0}, rt : {200}]
    \cup [kind : {"non200"}, has_uptime : {FALSE}, uptime : {0}, rt : {200}]
    \cup [kind : {"bad200", "timeout", "transport"}, has_uptime : {FALSE},
          uptime : {0}, rt : {0}]

\* the if / elif chain of get_system_health, in the order the code tests it
DeriveStatus(uptime) ==
    IF uptime < HealthyUptime THEN "degraded"
    ELSE IF uptime < DegradedUptime THEN "down"
    ELSE "healthy"

HealthSampleLenient(name, o) ==
    CASE o.kind \in {"ok200", "bad200"} ->
            LET uptime == IF o.has_uptime THEN o.uptime ELSE DefaultUptime
            IN  [system_name |-> name, status |-> DeriveStatus(uptime),
                 response_time_ms |-> o.rt, error_message |-> "none",
                 uptime_percentage |-> uptime]
      [] o.kind = "non200" ->
            [system_name |-> name, status |-> "down",
             response_time_ms |-> o.rt, error_message |-> "http",
             uptime_percentage |-> 0]
      [] o.kind = "timeout" ->
            [system_name |-> name, status |-> "down",
             response_time_ms |-> TimeoutLatencyMs, error_message |-> "timeout",
             uptime_percentage |-> 0]
      [] OTHER ->
            [system_name |-> name, status |-> "down",
             response_time_ms |-> 0, error_message |-> "exception",
             uptime_percentage |-> 0]

\* the SystemHealthStatus built for one endpoint: the 200 branch, the else
\* branch, except asyncio.TimeoutError, except Exception (which also takes a
\* 200 answer whose body does not parse or is no usable object)
HealthSample(name, o) ==
    CASE o.kind = "ok200" ->
            LET uptime == IF o.has_uptime THEN o.uptime ELSE DefaultUptime
            IN  [system_name |-> name, status |-> DeriveStatus(uptime),
                 response_time_ms |-> o.rt, error_message |-> "none",
                 uptime_percentage |-> uptime]
      [] o.kind = "non200" ->
            [system_name |-> name, status |-> "down",
             response_time_ms |-> o.rt, error_message |-> "http",
             uptime_percentage |-> 0]
      [] o.kind = "timeout" ->
            [system_name |-> name, status |-> "down",
             response_time_ms |-> TimeoutLatencyMs, error_message |-> "timeout",
             uptime_percentage |-> 0]
      [] OTHER ->
            [system_name |-> name, status |-> "down",
             response_time_ms |-> 0, error_message |-> "exception",
             uptime_percentage |-> 0]

\* overall_status before the first endpoint
StartStatus == "healthy"

RollUpLast(overall, status) == status

\* every branch that yields a non-healthy sample assigns overall_status
\* the status of that sample; a healthy sample leaves it alone
RollUp(overall, status) ==
    IF status = "healthy" THEN overall ELSE status

RECURSIVE OverallStatus(_, _)
OverallStatus(samples, overall) ==
    IF samples = <<>> THEN overall
    ELSE OverallStatus(Tail(samples), RollUp(overall, Head(samples).status))

AvgResponseTimeUnguarded(samples) ==
    Frac(SumSeq([i \in 1..Len(samples) |-> samples[i].response_time_ms]),
         Len(samples))

AvgResponseTime(samples) ==
    IF Len(samples) > 0
    THEN Frac(SumSeq([i \in 1..Len(samples) |-> samples[i].response_time_ms]),
              Len(samples))
    ELSE Frac(0, 1)

HealthSummaryNotDown(samples) ==
    [total_systems |-> Len(samples),
     healthy_systems |-> Len(samples) - CountStatus(samples, "down"),
     degraded_systems |-> CountStatus(samples, "degraded"),
     down_systems |-> CountStatus(samples, "down"),
     avg_response_time |-> AvgResponseTime(samples)]

HealthSummary(samples) ==
    [total_systems |-> Len(samples),
     healthy_systems |-> CountStatus(samples, "healthy"),
     degraded_systems |-> CountStatus(samples, "degraded"),
     down_systems |-> CountStatus(samples, "down"),
     avg_response_time |-> AvgResponseTime(samples)]

HealthSamplesUntilFailure(cfg, outs) ==
    LET failing == {i \in 1..cfg.nEndpoints : outs[i].kind \notin {"ok200", "non200"}}
        last == IF failing = {} THEN cfg.nEndpoints
                ELSE CHOOSE i \in failing : \A j \in failing : i <= j
    IN  [i \in 1..last |-> HealthSample(SystemName(cfg, i), outs[i])]

\* for i, endpoint in enumerate(endpoints): one sample per endpoint, appended
\* after the try statement whatever branch built it
HealthSamples(cfg, outs) ==
    [i \in 1..cfg.nEndpoints |-> HealthSample(SystemName(cfg, i), outs[i])]

\* the rows store_health_check inserts; a failing insert is logged and dropped
RECURSIVE HealthRows(_, _, _, _)
HealthRows(c, samples, written, i) ==
    IF i > Len(samples) THEN <<>>
    ELSE (IF i \in written
          THEN <<[client_id |-> c, system_name |-> samples[i].system_name,
                  status |-> samples[i].status]>>
          ELSE <<>>) \o HealthRows(c, samples, written, i + 1)

NoHealthResult ==
    [ret |-> "none", client_id |-> "none", overall_status |-> "none",
     systems |-> <<>>, summary |-> HealthSummary(<<>>)]

HealthError(c) ==
    [ret |-> "error", client_id |-> c, overall_status |-> "none",
     systems |-> <<>>, summary |-> HealthSummary(<<>>)]

HealthReturn(c, samples) ==
    [ret |-> "ok", client_id |-> c,
     overall_status |-> OverallStatus(samples, StartStatus),
     systems |-> samples, summary |-> HealthSummary(samples)]

SystemHealthUnchecked(c, cfg, outs) ==
    HealthReturn(c, HealthSamples(cfg, outs))

\* get_system_health as a function of its inputs
SystemHealth(c, cfg, outs) ==
    IF ~cfg.registered THEN HealthError(c)
    ELSE HealthReturn(c, HealthSamples(cfg, outs))

\* ------------------------------------------------- values of a JSON body
\* A decoded JSON value: a number, a string, or no value under that key.
Num(n) == [t |-> "num", n |-> n, s |-> <<>>]
Str(s) == [t |-> "str", n |-> 0, s |-> s]
Missing == [t |-> "missing", n |-> 0, s |-> <<>>]

\* Python's a + b: numbers add, strings concatenate, a mix is a TypeError
CanAdd(a, b) == a.t = b.t /\ a.t \in {"num", "str"}
PyAdd(a, b) == IF a.t = "num" THEN Num(a.n + b.n) ELSE Str(a.s \o b.s)

\* metrics_data.get(key, 0)
GetOr0(v) == IF v.t = "missing" THEN Num(0) ELSE v

Max(a, b) == IF a >= b THEN a ELSE b

\* --------------------------------------------------- performance fan-out
\* the counters, in the order get_performance_metrics adds them
CounterNames ==
    <<"total_automations", "successful_automations", "failed_automations",
      "total_processing_time", "cost_savings">>

GainKeys == {"k1", "k2"}

Counters(total, successful, failed, time, cost) ==
    [total_automations |-> total, successful_automations |-> successful,
     failed_automations |-> failed, total_processing_time |-> time,
     cost_savings |-> cost]

NoGains == [t |-> "missing", items |-> <<>>]
NotADict == [t |-> "notdict", items |-> <<>>]
Gains(items) == [t |-> "dict", items |-> items]
Item(k, v) == [key |-> k, val |-> v]

EmptyBody ==
    [counters |-> Counters(Missing, Missing, Missing, Missing, Missing),
     gains |-> NoGains]

\* The JSON bodies an endpoint answers GET /metrics with: the counters ...
MetricsCounters ==
    { Counters(Num(10), Num(9), Num(1), Num(50), Num(20)),
      Counters(Num(0), Num(5), Num(0), Num(0), Num(0)),
      Counters(Num(10), Num(12), Num(1), Num(50), Num(20)),
      Counters(Num(10), Str(<<"x">>), Num(1), Num(50), Num(20)),
      Counters(Missing, Missing, Missing, Missing, Missing) }

\* ... and the efficiency_gains
MetricsGains ==
    { NoGains,
      NotADict,
      Gains(<<Item("k1", Num(3))>>),
      Gains(<<Item("k1", Str(<<"x">>)), Item("k2", Num(4))>>) }

MetricsBodies == [counters : MetricsCounters, gains : MetricsGains]

\* What one GET {endpoint}/metrics can do.
MetricsResponses ==
    [kind : {"ok200"}, body : MetricsBodies]
    \cup [kind : {"non200", "bad200", "timeout", "transport"}, body : {EmptyBody}]

AggregateStart ==
    [counters |-> [name \in {CounterNames[k] : k \in 1..Len(CounterNames)} |-> 0],
     efficiency_gains |-> [key \in GainKeys |-> Missing]]

\* for key, value in system_efficiency.items(): add or set; the first
\* TypeError leaves the loop (and the endpoint) with what was merged so far
RECURSIVE MergeGains(_, _, _)
MergeGains(agg, items, k) ==
    IF k > Len(items) THEN agg
    ELSE LET key == items[k].key
             val == items[k].val
             cur == agg.efficiency_gains[key]
         IN  IF cur.t = "missing"
             THEN MergeGains([agg EXCEPT !.efficiency_gains[key] = val], items, k + 1)
             ELSE IF CanAdd(cur, val)
             THEN MergeGains([agg EXCEPT !.efficiency_gains[key] = PyAdd(cur, val)],
                             items, k + 1)
             ELSE agg

MergeEfficiency(agg, gains) ==
    IF gains.t = "dict" THEN MergeGains(agg, gains.items, 1) ELSE agg

\* aggregated_metrics[name] += metrics_data.get(name, 0), counter after
\* counter; a value that is no number raises and ends this endpoint
RECURSIVE AddCounters(_, _, _)
AddCounters(agg, body, k) ==
    IF k > Len(CounterNames) THEN MergeEfficiency(agg, body.gains)
    ELSE LET name == CounterNames[k]
             v == GetOr0(body.counters[name])
         IN  IF v.t = "num"
             THEN AddCounters([agg EXCEPT !.counters[name] = @ + v.n], body, k + 1)
             ELSE agg

\* one turn of `for endpoint in endpoints`
MergeEndpoint(agg, resp) ==
    IF resp.kind = "ok200" THEN AddCounters(agg, resp.body, 1) ELSE agg

RECURSIVE AggregateFrom(_, _)
AggregateFrom(agg, resps) ==
    IF resps = <<>> THEN agg
    ELSE AggregateFrom(MergeEndpoint(agg, Head(resps)), Tail(resps))

Aggregate(resps) == AggregateFrom(AggregateStart, resps)

\* (successful / max(total, 1)) * 100
SuccessRate(agg) ==
    Frac(agg.counters["successful_automations"] * 100,
         Max(agg.counters["total_automations"], 1))

AvgProcessingTime(agg) ==
    Frac(agg.counters["total_processing_time"],
         Max(agg.counters["total_automations"], 1))

\* the PerformanceMetrics object
Snapshot(c, end, agg) ==
    [client_id |-> c, timeframe_end |-> end,
     total_automations |-> agg.counters["total_automations"],
     successful_automations |-> agg.counters["successful_automations"],
     failed_automations |-> agg.counters["failed_automations"],
     success_rate |-> SuccessRate(agg),
     avg_processing_time |-> AvgProcessingTime(agg),
     cost_savings |-> agg.counters["cost_savings"],
     efficiency_gains |-> agg.efficiency_gains]

NoSnapshot == Snapshot("none", 0, AggregateStart)

\* the row store_performance_metrics inserts
PerformanceRow(m) ==
    [client_id |-> m.client_id, metric_date |-> m.timeframe_end,
     total_automations |-> m.total_automations,
     successful_automations |-> m.successful_automations,
     failed_automations |-> m.failed_automations,
     success_rate |-> m.success_rate, cost_savings |-> m.cost_savings]

\* ----------------------------------------------------------------- trends
Timeframes == {"24h", "7d", "30d", "90d"}

PeriodDays(timeframe) ==
    IF timeframe = "24h" THEN 7 ELSE IF timeframe = "7d" THEN 30 ELSE 90

RECURSIVE WindowRows(_, _, _)
\* WHERE client_id = ? AND metric_date >= date('now', '-N days')
WindowRows(rows, c, from) ==
    IF rows = <<>> THEN <<>>
    ELSE (IF Head(rows).client_id = c /\ Head(rows).metric_date >= from
          THEN <<Head(rows)>> ELSE <<>>) \o WindowRows(Tail(rows), c, from)

\* ORDER BY metric_date; rows of one date stay in insertion order
RECURSIVE InsertByDate(_, _)
InsertByDate(sorted, r) ==
    IF sorted = <<>> THEN <<r>>
    ELSE IF Head(sorted).metric_date <= r.metric_date
         THEN <<Head(sorted)>> \o InsertByDate(Tail(sorted), r)
         ELSE <<r>> \o sorted

RECURSIVE NewestFirst(_)
NewestFirst(rows) ==
    IF rows = <<>> THEN <<>>
    ELSE <<rows[Len(rows)]>> \o NewestFirst(SubSeq(rows, 1, Len(rows) - 1))

RECURSIVE OrderByDate(_)
OrderByDate(rows) ==
    IF rows = <<>> THEN <<>>
    ELSE InsertByDate(OrderByDate(SubSeq(rows, 1, Len(rows) - 1)), rows[Len(rows)])

\* a / b - c / d
FracSub(a, b) == Frac(a.num * b.den - b.num * a.den, a.den * b.den)

\* ((recent - previous) / max(previous, 1)) * 100
RelativeChange(recent, previous) ==
    Frac((recent - previous) * 100, Max(previous, 1))

Sign(f) == IF f.num > 0 THEN "up" ELSE IF f.num < 0 THEN "down" ELSE "stable"

NoTrend(kind) ==
    [kind |-> kind, automation_volume_trend |-> Frac(0, 1),
     success_rate_trend |-> Frac(0, 1), cost_savings_trend |-> Frac(0, 1),
     trend_direction |-> "none"]

MinTrendRows == 2

TrendOfRowsFromOne(rows) ==
    IF Len(rows) < 1 THEN NoTrend("insufficient_data")
    ELSE LET recent == rows[Len(rows)]
             previous == rows[1]
             volume == RelativeChange(recent.total_automations,
                                      previous.total_automations)
         IN  [kind |-> "computed",
              automation_volume_trend |-> volume,
              success_rate_trend |-> FracSub(recent.success_rate, previous.success_rate),
              cost_savings_trend |-> RelativeChange(recent.cost_savings,
                                                    previous.cost_savings),
              trend_direction |-> Sign(volume)]

\* the body of calculate_performance_trends under its try
TrendOfRows(rows) ==
    IF Len(rows) < MinTrendRows THEN NoTrend("insufficient_data")
    ELSE LET recent == rows[Len(rows)]
             previous == rows[1]
             volume == RelativeChange(recent.total_automations,
                                      previous.total_automations)
         IN  [kind |-> "computed",
              automation_volume_trend |-> volume,
              success_rate_trend |-> FracSub(recent.success_rate, previous.success_rate),
              cost_savings_trend |-> RelativeChange(recent.cost_savings,
                                                    previous.cost_savings),
              trend_direction |-> Sign(volume)]

\* calculate_performance_trends: a failing read is caught and reported
calculate_performance_trends(rows, c, timeframe, now, readOk) ==
    IF ~readOk THEN NoTrend("error")
    ELSE TrendOfRows(OrderByDate(WindowRows(rows, c, now - PeriodDays(timeframe))))

\* generate_performance_recommendations evaluates metrics.get(...) as the
\* default of getattr whatever metrics is: a PerformanceMetrics object has
\* no get, a dict has
RecommendationsRaise(argument) == argument # "dict"

NoPerfResult ==
    [ret |-> "none", client_id |-> "none", timeframe |-> "none",
     metrics |-> NoSnapshot, trends |-> NoTrend("none")]

PerfError(c, timeframe) ==
    [ret |-> "error", client_id |-> c, timeframe |-> timeframe,
     metrics |-> NoSnapshot, trends |-> NoTrend("none")]

\* the dict get_performance_metrics returns, unless building it raises
PerfReturn(c, timeframe, m, trend) ==
    IF RecommendationsRaise("dataclass")
    THEN [ret |-> "raise", client_id |-> c, timeframe |-> timeframe,
          metrics |-> NoSnapshot, trends |-> NoTrend("none")]
    ELSE [ret |-> "ok", client_id |-> c, timeframe |-> timeframe,
          metrics |-> m, trends |-> trend]

\* get_performance_metrics as a function of the performance variables p:
\* what they are after the call
PerformanceOutcome(p, c, cfg, resps, timeframe, now, writeOk, trendReadOk) ==
    IF ~cfg.registered
    THEN [p EXCEPT !.perfResult = PerfError(c, timeframe)]
    ELSE LET m == Snapshot(c, now, Aggregate(resps))
             stored == IF writeOk
                       THEN Append(p.performance_metrics, PerformanceRow(m))
                       ELSE p.performance_metrics
             trend == calculate_performance_trends(stored, c, timeframe, now, trendReadOk)
         IN  [performance_metrics |-> stored, performance_result |-> m,
              trends |-> trend, perfResult |-> PerfReturn(c, timeframe, m, trend)]

\* ----------------------------------------------------------------- alerts
\* sqlite gives a row inserted without id the next rowid
NextRowId(table) ==
    IF table = <<>> THEN 1 ELSE table[Len(table)].id + 1

RECURSIVE WithoutId(_, _)
WithoutId(table, id) ==
    IF table = <<>> THEN <<>>
    ELSE (IF Head(table).id = id THEN <<>> ELSE <<Head(table)>>)
         \o WithoutId(Tail(table), id)

\* INSERT OR REPLACE INTO alert_thresholds: the new row replaces the rows it
\* conflicts with on a PRIMARY KEY or UNIQUE column; the table has one, id
InsertOrReplace(table, row) ==
    LET new == [row EXCEPT !.id = NextRowId(table)]
    IN  Append(WithoutId(table, new.id), new)

ThresholdRow(c, metric, threshold, comparison, alert_type) ==
    [id |-> 0, client_id |-> c, metric_name |-> metric, threshold_value |-> threshold,
     comparison |-> comparison, alert_type |-> alert_type, is_active |-> TRUE]

\* the metric test_alert_threshold resolves, None (has |-> FALSE) if it does not
NoValue == [has |-> FALSE, value |-> Frac(0, 1)]
Value(f) == [has |-> TRUE, value |-> f]

MeanUptime(systems) ==
    Frac(SumSeq([i \in 1..Len(systems) |-> systems[i].uptime_percentage]), Len(systems))

MetricValue(metric, perf, health) ==
    IF metric = "success_rate" THEN Value(perf.metrics.success_rate)
    ELSE IF metric = "response_time" THEN Value(health.summary.avg_response_time)
    ELSE IF metric = "uptime" /\ health.systems # <<>> THEN Value(MeanUptime(health.systems))
    ELSE NoValue

Abs(x) == IF x < 0 THEN -x ELSE x

\* the comparison chain of test_alert_threshold; v is a fraction, threshold a number
WouldAlert(comparison, v, threshold) ==
    \/ comparison = "greater_than" /\ v.num > threshold * v.den
    \/ comparison = "less_than" /\ v.num < threshold * v.den
    \/ comparison = "equals" /\ Abs(v.num - threshold * v.den) * 100 < v.den

NoTest == [test_status |-> "none", reason |-> "none", current_value |-> NoValue,
           would_alert |-> FALSE]
TestError(reason) ==
    [test_status |-> "error", reason |-> reason, current_value |-> NoValue,
     would_alert |-> FALSE]

\* which of its two health checks test_alert_threshold makes
TestChecksHealth(metric, perf) ==
    perf.ret = "ok" /\ metric \in {"response_time", "uptime"}

test_alert_threshold_defaulting(metric, threshold, comparison, perf, health) ==
    LET v == IF perf.ret = "ok" THEN MetricValue(metric, perf, health) ELSE NoValue
        value == IF v.has THEN v.value ELSE Frac(0, 1)
    IN  [test_status |-> "success", reason |-> "none", current_value |-> Value(value),
         would_alert |-> WouldAlert(comparison, value, threshold)]

\* test_alert_threshold, given how its get_performance_metrics ended and
\* what its get_system_health returned; the except of its try turns every
\* exception into an error result
test_alert_threshold(metric, threshold, comparison, perf, health) ==
    IF perf.ret = "raise" THEN TestError("exception")
    ELSE IF perf.ret = "error" THEN TestError("no_metrics")
    ELSE LET v == MetricValue(metric, perf, health)
         IN  IF ~v.has THEN TestError("unknown_metric")
             ELSE [test_status |-> "success", reason |-> "none", current_value |-> v,
                   would_alert |-> WouldAlert(comparison, v.value, threshold)]

\* the alert_config of the dict alert_on_failures returns
NoAlertConfig ==
    [metric_name |-> "none", threshold |-> 0, comparison |-> "none", alert_type |-> "none"]
AlertConfig(metric, threshold, comparison, alert_type) ==
    [metric_name |-> metric, threshold |-> threshold, comparison |-> comparison,
     alert_type |-> alert_type]

NoAlertResult ==
    [ret |-> "none", client_id |-> "none", alert_config |-> NoAlertConfig,
     test_result |-> NoTest]

\* ---------------------------------------------------------------- reports
ReportTypes == {"daily", "weekly", "monthly", "quarterly"}

\* the days the report period spans; an unknown kind is reported as weekly
ReportPeriodDays(report_type) ==
    IF report_type = "daily" THEN 1
    ELSE IF report_type = "weekly" THEN 7
    ELSE IF report_type = "monthly" THEN 30
    ELSE IF report_type = "quarterly" THEN 90
    ELSE 7

ReportTimeframeOwnPeriod(report_type) ==
    IF report_type = "daily" THEN "24h"
    ELSE IF report_type = "weekly" THEN "7d"
    ELSE IF report_type = "quarterly" THEN "90d"
    ELSE "30d"

\* "30d" if report_type != "quarterly" else "90d"
ReportTimeframe(report_type) ==
    IF report_type # "quarterly" THEN "30d" ELSE "90d"

\* identify_critical_issues: the down samples, in order
RECURSIVE CriticalIssues(_)
CriticalIssues(systems) ==
    IF systems = <<>> THEN <<>>
    ELSE (IF Head(systems).status = "down" THEN <<Head(systems).system_name>> ELSE <<>>)
         \o CriticalIssues(Tail(systems))

\* report_data, as far as it depends on the inputs
ReportData(c, report_type, now, health, perf, include_recommendations) ==
    [client_id |-> c, report_type |-> report_type,
     period_start |-> now - ReportPeriodDays(report_type), period_end |-> now,
     overall_status |-> health.overall_status,
     critical_issues |-> CriticalIssues(health.systems),
     total_automations |-> perf.metrics.total_automations,
     success_rate |-> perf.metrics.success_rate,
     cost_savings |-> perf.metrics.cost_savings,
     performance_trends |-> perf.trends,
     recommendations |-> include_recommendations]

\* the row store_client_report inserts
ReportRow(table, data) ==
    [id |-> NextRowId(table), client_id |-> data.client_id,
     report_type |-> data.report_type,
     report_period |-> <<data.period_start, data.period_end>>,
     report_data |-> data]

\* does generate_client_reports raise after its two aggregations: it indexes
\* performance_metrics["metrics"], and passes that dict to
\* generate_performance_recommendations
ReportRaises(perf, include_recommendations) ==
    \/ perf.ret # "ok"
    \/ include_recommendations /\ RecommendationsRaise("dict")

NoReportResult ==
    [ret |-> "none", client_id |-> "none", report_type |-> "none",
     overall_health |-> "none"]
ReportError(c, report_type) ==
    [ret |-> "error", client_id |-> c, report_type |-> report_type,
     overall_health |-> "none"]
ReportRaised(c, report_type) ==
    [ret |-> "raise", client_id |-> c, report_type |-> report_type,
     overall_health |-> "none"]
ReportReturn(c, report_type, health) ==
    [ret |-> "success", client_id |-> c, report_type |-> report_type,
     overall_health |-> health.overall_status]

\* ------------------------------------------------------ all-clients view
\* ORDER BY client_name; the clients are named in the order of their ids
ClientOrder == <<"acme", "globex">>

\* SELECT * FROM clients [WHERE is_active = TRUE] ORDER BY client_name
RECURSIVE SelectClients(_, _, _)
SelectClients(table, order, include_inactive) ==
    IF order = <<>> THEN <<>>
    ELSE (IF table[Head(order)].registered
             /\ (include_inactive \/ table[Head(order)].is_active)
          THEN <<Head(order)>> ELSE <<>>)
         \o SelectClients(table, Tail(order), include_inactive)

\* the client_summary of a client whose evaluation raised
ErrorSummary(c) ==
    [client_id |-> c, overall_status |-> "error", systems_count |-> 0,
     today_automations |-> 0]

\* the client_summary of a client that was evaluated
ClientSummary(c, health, perf) ==
    [client_id |-> c,
     overall_status |-> IF health.ret = "ok" THEN health.overall_status ELSE "unknown",
     systems_count |-> Len(health.systems),
     today_automations |-> perf.metrics.total_automations]

\* One turn of `for client_row in clients`, on the state st of the call so
\* far: the health check, the 24h performance query, and the summary, which
\* is the error summary when either raised or the performance result has no
\* "metrics".  readOk, writeOk: the sqlite reads and writes for this client work.
EvaluateClient(st, c, readOk, writeOk) ==
    LET cfg == get_client_config(c, readOk)
        health == SystemHealth(c, cfg, net[c])
        written == IF writeOk THEN 1..cfg.nEndpoints ELSE {}
        p == [performance_metrics |-> st.performance_metrics,
              performance_result |-> st.performance_result,
              trends |-> st.trends, perfResult |-> st.perfResult]
        q == PerformanceOutcome(p, c, cfg, mnet[c], "24h", today, writeOk, TRUE)
    IN  [health_checks |-> st.health_checks \o HealthRows(c, health.systems, written, 1),
         healthResult |-> health,
         performance_metrics |-> q.performance_metrics,
         performance_result |-> q.performance_result,
         trends |-> q.trends,
         perfResult |-> q.perfResult,
         requests |-> st.requests \o Requests(c, cfg, "health")
                                 \o Requests(c, cfg, "metrics"),
         entries |-> Append(st.entries,
                            IF q.perfResult.ret = "ok"
                            THEN ClientSummary(c, health, q.perfResult)
                            ELSE ErrorSummary(c))]

RECURSIVE EvaluateClientsUntilError(_, _, _, _)
EvaluateClientsUntilError(st, selected, readOks, writeOks) ==
    IF selected = <<>> THEN st
    ELSE LET c == Head(selected)
             next == EvaluateClient(st, c, c \in readOks, c \in writeOks)
         IN  IF next.entries[Len(next.entries)].overall_status = "error" THEN next
             ELSE EvaluateClientsUntilError(next, Tail(selected), readOks, writeOks)

\* the loop over the selected clients; the except is inside the loop
RECURSIVE EvaluateClients(_, _, _, _)
EvaluateClients(st, selected, readOks, writeOks) ==
    IF selected = <<>> THEN st
    ELSE LET c == Head(selected)
         IN  EvaluateClients(EvaluateClient(st, c, c \in readOks, c \in writeOks),
                             Tail(selected), readOks, writeOks)

CountEntries(entries, st) ==
    Cardinality({i \in 1..Len(entries) : entries[i].overall_status = st})

NoClientsStatus ==
    [ret |-> "none", include_inactive |-> FALSE, total_clients |-> 0, clients |-> <<>>,
     healthy_clients |-> 0, degraded_clients |-> 0, down_clients |-> 0,
     error_clients |-> 0]
ClientsStatusRaised(include_inactive) ==
    [NoClientsStatus EXCEPT !.ret = "raise", !.include_inactive = include_inactive]
ClientsStatusReturn(include_inactive, entries) ==
    [ret |-> "ok", include_inactive |-> include_inactive,
     total_clients |-> Len(entries), clients |-> entries,
     healthy_clients |-> CountEntries(entries, "healthy"),
     degraded_clients |-> CountEntries(entries, "degraded"),
     down_clients |-> CountEntries(entries, "down"),
     error_clients |-> CountEntries(entries, "error")]

\* --------------------------------------------------- the dashboard rollup
\* dashboard.py, "worst status wins": down always, degraded unless down
DashboardRollUp(overall, status) ==
    IF status = "down" THEN "down"
    ELSE IF status = "degraded" /\ overall # "down" THEN "degraded"
    ELSE overall

\* client_health[client_id]["overall_status"] after the rows of one client,
\* in the order the SELECT returns them; it starts at "healthy"
RECURSIVE DashboardOverall(_, _)
DashboardOverall(rows, overall) ==
    IF rows = <<>> THEN overall
    ELSE DashboardOverall(Tail(rows), DashboardRollUp(overall, Head(rows).status))

\* ORDER BY check_timestamp DESC: the rows of one check, last sample first
NewestCheckFirst(rows) == [i \in 1..Len(rows) |-> rows[Len(rows) + 1 - i]]

\* ---------------------------------------------------------------- actions
Unregistered == [c \in ClientIds |-> NoClient]

\* no endpoint loop is under way
NoFanOut ==
    [op |-> "none", client_id |-> "none", timeframe |-> "none", issued |-> 0,
     inFlight |-> {}, answers |-> <<>>]

NoCall ==
    [op |-> "none", client_id |-> "none", timeframe |-> "none", readOk |-> TRUE,
     trendReadOk |-> TRUE]
Call(op, c, timeframe, readOk, trendReadOk) ==
    [op |-> op, client_id |-> c, timeframe |-> timeframe, readOk |-> readOk,
     trendReadOk |-> trendReadOk]

Init ==
    /\ clients = Unregistered
    /\ net = [c \in ClientIds |-> <<>>]
    /\ mnet = [c \in ClientIds |-> <<>>]
    /\ today = 0
    /\ health_checks = <<>>
    /\ performance_metrics = <<>>
    /\ healthResult = NoHealthResult
    /\ performance_result = NoSnapshot
    /\ trends = NoTrend("none")
    /\ perfResult = NoPerfResult
    /\ alert_thresholds = <<>>
    /\ alert_history = <<>>
    /\ alertResult = NoAlertResult
    /\ client_reports = <<>>
    /\ reportResult = NoReportResult
    /\ clientsStatus = NoClientsStatus
    /\ requests = <<>>
    /\ fanout = NoFanOut
    /\ lastCall = NoCall

\* register_client: INSERT INTO clients, then the initial get_system_health.
\* client_id is UNIQUE: the INSERT of a client_id already there fails and the
\* call returns an error.  answers and manswers are how the new endpoints
\* behave.
RegisterClient(c, n, m, answers, manswers, written) ==
    /\ lastCall' = Call("register_client", c, "none", TRUE, TRUE)
    /\ UNCHANGED <<today, perfVars, alertVars, reportVars, fanout>>
    /\ IF clients[c].registered
       THEN /\ requests' = <<>>
            /\ UNCHANGED <<clients, net, mnet, healthVars>>
       ELSE /\ Len(health_checks) + n <= MaxHealthRows
            /\ LET cfg == [registered |-> TRUE, nEndpoints |-> n, nSystems |-> m,
                           is_active |-> TRUE]
                   res == SystemHealth(c, cfg, answers)
               IN  /\ clients' = [clients EXCEPT ![c] = cfg]
                   /\ net' = [net EXCEPT ![c] = answers]
                   /\ mnet' = [mnet EXCEPT ![c] = manswers]
                   /\ healthResult' = res
                   /\ health_checks' =
                         health_checks \o HealthRows(c, res.systems, written, 1)
                   /\ requests' = Requests(c, cfg, "health")

GetSystemHealth(c, readOk, written) ==
    LET cfg == get_client_config(c, readOk)
        res == SystemHealth(c, cfg, net[c])
    IN  /\ Len(health_checks) + cfg.nEndpoints <= MaxHealthRows
        /\ healthResult' = res
        /\ health_checks' = health_checks \o HealthRows(c, res.systems, written, 1)
        /\ lastCall' = Call("get_system_health", c, "none", readOk, TRUE)
        /\ requests' = Requests(c, cfg, "health")
        /\ UNCHANGED <<clients, envVars, perfVars, alertVars, reportVars, fanout>>

\* What get_performance_metrics does to its variables.  readOk: the SELECT
\* of get_client_config works; writeOk: the INSERT of
\* store_performance_metrics works; trendReadOk: the SELECT of
\* calculate_performance_trends works.
PerformanceMetrics(c, timeframe, readOk, writeOk, trendReadOk) ==
    LET cfg == get_client_config(c, readOk)
        p == [performance_metrics |-> performance_metrics,
              performance_result |-> performance_result,
              trends |-> trends, perfResult |-> perfResult]
    IN  \E q \in {PerformanceOutcome(p, c, cfg, mnet[c], timeframe, today,
                                      writeOk, trendReadOk)} :
            /\ Len(q.performance_metrics) <= MaxPerfRows
            /\ performance_metrics' = q.performance_metrics
            /\ performance_result' = q.performance_result
            /\ trends' = q.trends
            /\ perfResult' = q.perfResult

GetPerformanceMetrics(c, timeframe, readOk, writeOk, trendReadOk) ==
    /\ PerformanceMetrics(c, timeframe, readOk, writeOk, trendReadOk)
    /\ lastCall' = Call("get_performance_metrics", c, timeframe, readOk,
                        ~get_client_config(c, readOk).registered \/ trendReadOk)
    /\ requests' = Requests(c, get_client_config(c, readOk), "metrics")
    /\ UNCHANGED <<clients, envVars, healthVars, alertVars, reportVars, fanout>>

\* alert_on_failures: the INSERT OR REPLACE, then test_alert_threshold, which
\* calls get_performance_metrics for 24h and, when that returned, may call
\* get_system_health.  insertOk: the INSERT works.
AlertOnFailures(c, metric, threshold, comparison, alert_type, insertOk, readOk, writeOk, written) ==
    /\ lastCall' = Call("alert_on_failures", c, "none", readOk, TRUE)
    /\ UNCHANGED <<clients, envVars, alert_history, reportVars, fanout>>
    /\ IF ~insertOk
       THEN /\ alertResult' = [ret |-> "error", client_id |-> c,
                               alert_config |-> NoAlertConfig, test_result |-> NoTest]
            /\ requests' = <<>>
            /\ UNCHANGED <<alert_thresholds, healthVars, perfVars>>
       ELSE /\ Len(alert_thresholds) < MaxThresholdRows
            /\ alert_thresholds' =
                  InsertOrReplace(alert_thresholds,
                                  ThresholdRow(c, metric, threshold, comparison, alert_type))
            /\ PerformanceMetrics(c, "24h", readOk, writeOk, TRUE)
            /\ LET cfg == get_client_config(c, readOk)
                   health == SystemHealth(c, cfg, net[c])
               IN  /\ IF TestChecksHealth(metric, perfResult')
                      THEN /\ Len(health_checks) + cfg.nEndpoints <= MaxHealthRows
                           /\ healthResult' = health
                           /\ health_checks' =
                                 health_checks \o HealthRows(c, health.systems, written, 1)
                           /\ requests' = Requests(c, cfg, "metrics")
                                           \o Requests(c, cfg, "health")
                      ELSE /\ requests' = Requests(c, cfg, "metrics")
                           /\ UNCHANGED healthVars
                   /\ alertResult' =
                         [ret |-> "success", client_id |-> c,
                          alert_config |-> AlertConfig(metric, threshold, comparison,
                                                       alert_type),
                          test_result |-> test_alert_threshold(metric, threshold, comparison,
                                                               perfResult', health)]

\* generate_client_reports: get_client_config, then get_system_health, then
\* get_performance_metrics over the long window, then the report is built
\* and stored.  reportWriteOk: the INSERT of store_client_report works.
GenerateClientReports(c, report_type, include_recommendations, readOk, written, writeOk, trendReadOk, reportWriteOk) ==
    LET cfg == get_client_config(c, readOk)
        health == SystemHealth(c, cfg, net[c])
    IN  /\ lastCall' = Call("generate_client_reports", c, ReportTimeframe(report_type),
                            readOk, TRUE)
        /\ UNCHANGED <<clients, envVars, alertVars, clientsStatus, fanout>>
        /\ IF ~cfg.registered
           THEN /\ reportResult' = ReportError(c, report_type)
                /\ requests' = <<>>
                /\ UNCHANGED <<healthVars, perfVars, client_reports>>
           ELSE /\ Len(health_checks) + cfg.nEndpoints <= MaxHealthRows
                /\ healthResult' = health
                /\ health_checks' =
                      health_checks \o HealthRows(c, health.systems, written, 1)
                /\ PerformanceMetrics(c, ReportTimeframe(report_type), readOk, writeOk,
                                      trendReadOk)
                /\ requests' = Requests(c, cfg, "health") \o Requests(c, cfg, "metrics")
                /\ IF ReportRaises(perfResult', include_recommendations)
                   THEN /\ reportResult' = ReportRaised(c, report_type)
                        /\ UNCHANGED client_reports
                   ELSE /\ reportWriteOk => Len(client_reports) < MaxReportRows
                        /\ client_reports' =
                              IF reportWriteOk
                              THEN Append(client_reports,
                                          ReportRow(client_reports,
                                                    ReportData(c, report_type, today, health,
                                                               perfResult',
                                                               include_recommendations)))
                              ELSE client_reports
                        /\ reportResult' = ReportReturn(c, report_type, health)

\* get_all_clients_status.  listOk: the SELECT of the clients works (it is
\* outside every try); readOks, writeOks: the clients for which the reads and
\* the writes of the per-client queries work.
GetAllClientsStatus(include_inactive, listOk, readOks, writeOks) ==
    /\ lastCall' = Call("get_all_clients_status", "none", "24h", listOk, TRUE)
    /\ UNCHANGED <<clients, envVars, alertVars, client_reports, reportResult, fanout>>
    /\ IF ~listOk
       THEN /\ clientsStatus' = ClientsStatusRaised(include_inactive)
            /\ requests' = <<>>
            /\ UNCHANGED <<healthVars, perfVars>>
       ELSE \E st \in {EvaluateClients(
                          [health_checks |-> health_checks, healthResult |-> healthResult,
                           performance_metrics |-> performance_metrics,
                           performance_result |-> performance_result,
                           trends |-> trends, perfResult |-> perfResult,
                           requests |-> <<>>, entries |-> <<>>],
                          SelectClients(clients, ClientOrder, include_inactive),
                          readOks, writeOks)} :
                /\ Len(st.health_checks) <= MaxHealthRows
                /\ Len(st.performance_metrics) <= MaxPerfRows
                /\ health_checks' = st.health_checks
                /\ healthResult' = st.healthResult
                /\ performance_metrics' = st.performance_metrics
                /\ performance_result' = st.performance_result
                /\ trends' = st.trends
                /\ perfResult' = st.perfResult
                /\ requests' = st.requests
                /\ clientsStatus' = ClientsStatusReturn(include_inactive, st.entries)

\* ------------------------------------------- the endpoint loops, GET by GET
\* get_system_health and get_performance_metrics up to their loop: the client
\* is looked up, and an unknown one ends the call at once
BeginFanOut(c, op, timeframe, readOk) ==
    /\ fanout.op = "none"
    /\ requests' = <<>>
    /\ UNCHANGED <<clients, envVars, health_checks, performance_metrics, performance_result, trends, alertVars, reportVars>>
    /\ IF get_client_config(c, readOk).registered
       THEN /\ fanout' = [op |-> op, client_id |-> c, timeframe |-> timeframe,
                          issued |-> 0, inFlight |-> {}, answers |-> <<>>]
            /\ UNCHANGED <<healthResult, perfResult, lastCall>>
       ELSE /\ lastCall' = Call(op, c, timeframe, readOk, TRUE)
            /\ UNCHANGED fanout
            /\ IF op = "get_system_health"
               THEN healthResult' = HealthError(c) /\ UNCHANGED perfResult
               ELSE perfResult' = PerfError(c, timeframe) /\ UNCHANGED healthResult

\* session.get(endpoint + path) for the next endpoint: the for loop reaches it
\* only when the async with of the endpoint before it has been left
IssueProbe ==
    /\ fanout.op # "none"
    /\ fanout.inFlight = {}
    /\ fanout.issued < clients[fanout.client_id].nEndpoints
    /\ fanout' = [fanout EXCEPT !.issued = @ + 1, !.inFlight = {fanout.issued + 1}]
    /\ requests' = Append(requests,
                          [client_id |-> fanout.client_id, endpoint |-> fanout.issued + 1,
                           path |-> IF fanout.op = "get_system_health" THEN "health"
                                    ELSE "metrics"])
    /\ UNCHANGED <<clients, envVars, healthVars, perfVars, alertVars, reportVars, lastCall>>

\* the GET of endpoint i ends, with an answer, a timeout or an error: its
\* sample is built and stored (written: the INSERT works), or its metrics
\* are there to merge
ProbeAnswers(i, written) ==
    /\ i \in fanout.inFlight
    /\ LET c == fanout.client_id
           answer == IF fanout.op = "get_system_health" THEN net[c][i] ELSE mnet[c][i]
       IN  /\ fanout' = [fanout EXCEPT !.inFlight = @ \ {i}, !.answers = Append(@, answer)]
           /\ IF fanout.op = "get_system_health"
              THEN /\ written => Len(health_checks) < MaxHealthRows
                   /\ health_checks' =
                         health_checks
                         \o HealthRows(c, <<HealthSample(SystemName(clients[c], i), answer)>>,
                                       IF written THEN {1} ELSE {}, 1)
              ELSE UNCHANGED health_checks
    /\ UNCHANGED <<clients, envVars, healthResult, perfVars, alertVars, reportVars, lastCall, requests>>

\* after the last endpoint: get_system_health returns its samples,
\* get_performance_metrics stores its snapshot, computes the trends and ends
FanOutReturns(writeOk, trendReadOk) ==
    /\ fanout.op # "none"
    /\ fanout.inFlight = {}
    /\ fanout.issued = clients[fanout.client_id].nEndpoints
    /\ fanout' = NoFanOut
    /\ UNCHANGED <<clients, envVars, health_checks, alertVars, reportVars, requests>>
    /\ LET c == fanout.client_id
           p == [performance_metrics |-> performance_metrics,
                 performance_result |-> performance_result,
                 trends |-> trends, perfResult |-> perfResult]
       IN  IF fanout.op = "get_system_health"
           THEN /\ healthResult' = SystemHealth(c, clients[c], fanout.answers)
                /\ lastCall' = Call(fanout.op, c, fanout.timeframe, TRUE, TRUE)
                /\ UNCHANGED perfVars
           ELSE \E q \in {PerformanceOutcome(p, c, clients[c], fanout.answers,
                                             fanout.timeframe, today, writeOk,
                                             trendReadOk)} :
                    /\ Len(q.performance_metrics) <= MaxPerfRows
                    /\ performance_metrics' = q.performance_metrics
                    /\ performance_result' = q.performance_result
                    /\ trends' = q.trends
                    /\ perfResult' = q.perfResult
                    /\ lastCall' = Call(fanout.op, c, fanout.timeframe, TRUE, trendReadOk)
                    /\ UNCHANGED healthResult

\* an endpoint starts answering differently
EndpointChanges(c, i, o) ==
    /\ i \in 1..Len(net[c])
    /\ net' = [net EXCEPT ![c][i] = o]
    /\ UNCHANGED <<clients, mnet, today, healthVars, perfVars, alertVars, reportVars, lastCall, requests, fanout>>

\* an endpoint starts reporting other metrics
MetricsChange(c, i, r) ==
    /\ i \in 1..Len(mnet[c])
    /\ mnet' = [mnet EXCEPT ![c][i] = r]
    /\ UNCHANGED <<clients, net, today, healthVars, perfVars, alertVars, reportVars, lastCall, requests, fanout>>

\* the dates the model visits: 10, 30, 40, 60, 90 and 100 days apart
Days == {0, 10, 40, 100}

\* days pass
AdvanceDay(d) ==
    /\ d > today
    /\ today' = d
    /\ UNCHANGED <<clients, net, mnet, healthVars, perfVars, alertVars, reportVars, lastCall, requests, fanout>>

\* calculate_performance_trends on the table as it is
CalculateTrends(c, timeframe, readOk) ==
    /\ trends' = calculate_performance_trends(performance_metrics, c, timeframe, today,
                                              readOk)
    /\ lastCall' = Call("calculate_performance_trends", c, timeframe, TRUE, readOk)
    /\ UNCHANGED <<clients, envVars, healthVars, performance_metrics, performance_result, perfResult, alertVars, reportVars, requests, fanout>>

OutcomeSeqs(n) == [1..n -> HealthOutcomes]
ResponseSeqs(n) == [1..n -> MetricsResponses]

\* ------------------------------------------- the health fan-out on its own
\* One registered client whose endpoints answer in every way; the stores
\* start empty.
ClientConfigs ==
    {[registered |-> TRUE, nEndpoints |-> n, nSystems |-> m, is_active |-> TRUE] :
        n \in 0..MaxEndpoints, m \in 0..MaxEndpoints}

Unreachable == [kind |-> "transport", body |-> EmptyBody]
Refusing == [kind |-> "transport", has_uptime |-> FALSE, uptime |-> 0, rt |-> 0]
Degraded == [kind |-> "ok200", has_uptime |-> TRUE, uptime |-> 94, rt |-> 40]
Healthy == [kind |-> "ok200", has_uptime |-> TRUE, uptime |-> 100, rt |-> 40]

EmptyStores ==
    /\ today = 0
    /\ health_checks = <<>>
    /\ performance_metrics = <<>>
    /\ healthResult = NoHealthResult
    /\ performance_result = NoSnapshot
    /\ trends = NoTrend("none")
    /\ perfResult = NoPerfResult
    /\ alert_thresholds = <<>>
    /\ alert_history = <<>>
    /\ alertResult = NoAlertResult
    /\ client_reports = <<>>
    /\ reportResult = NoReportResult
    /\ clientsStatus = NoClientsStatus
    /\ requests = <<>>
    /\ fanout = NoFanOut
    /\ lastCall = NoCall

InitHealth ==
    /\ \E cfg \in ClientConfigs :
        /\ cfg.nSystems \in {0, cfg.nEndpoints}
        /\ clients = [Unregistered EXCEPT !["acme"] = cfg]
        /\ \E answers \in OutcomeSeqs(cfg.nEndpoints) :
            net = [c \in ClientIds |-> IF c = "acme" THEN answers ELSE <<>>]
        /\ mnet = [c \in ClientIds |->
                     IF c = "acme" THEN [i \in 1..cfg.nEndpoints |-> Unreachable]
                     ELSE <<>>]
    /\ EmptyStores

NextHealth ==
    \E c \in ClientIds, readOk \in BOOLEAN :
        \E written \in SUBSET (1..clients[c].nEndpoints) :
            GetSystemHealth(c, readOk, written)

SpecHealth == InitHealth /\ [][NextHealth]_vars

\* -------------------------------------- the performance fan-out on its own
InitPerf ==
    /\ \E cfg \in ClientConfigs :
        /\ cfg.nSystems = cfg.nEndpoints
        /\ clients = [Unregistered EXCEPT !["acme"] = cfg]
        /\ \E answers \in ResponseSeqs(cfg.nEndpoints) :
            mnet = [c \in ClientIds |-> IF c = "acme" THEN answers ELSE <<>>]
        /\ net = [c \in ClientIds |->
                    IF c = "acme" THEN [i \in 1..cfg.nEndpoints |-> Refusing]
                    ELSE <<>>]
    /\ EmptyStores

NextPerf ==
    \E c \in ClientIds, readOk \in BOOLEAN, writeOk \in BOOLEAN :
        GetPerformanceMetrics(c, "24h", readOk, writeOk, TRUE)

SpecPerf == InitPerf /\ [][NextPerf]_vars

\* ------------------------------------------------ snapshots and trends
\* One registered client with one endpoint, whose answers change over the days.
Steady ==
    [kind |-> "ok200",
     body |-> [counters |-> Counters(Num(10), Num(9), Num(1), Num(50), Num(20)),
               gains |-> NoGains]]
Busy ==
    [kind |-> "ok200",
     body |-> [counters |-> Counters(Num(20), Num(20), Num(0), Num(80), Num(50)),
               gains |-> NoGains]]

TrendResponses == {Steady, Busy}

InitTrend ==
    /\ \E cfg \in ClientConfigs :
        /\ cfg.nEndpoints = 1
        /\ cfg.nSystems = 1
        /\ clients = [Unregistered EXCEPT !["acme"] = cfg]
    /\ mnet = [c \in ClientIds |-> IF c = "acme" THEN <<Steady>> ELSE <<>>]
    /\ net = [c \in ClientIds |-> IF c = "acme" THEN <<Refusing>> ELSE <<>>]
    /\ EmptyStores

NextTrend ==
    \/ \E c \in ClientIds, timeframe \in Timeframes :
        \E writeOk \in BOOLEAN, trendReadOk \in BOOLEAN :
            GetPerformanceMetrics(c, timeframe, TRUE, writeOk, trendReadOk)
    \/ \E d \in Days : AdvanceDay(d)
    \/ \E c \in ClientIds, r \in TrendResponses : MetricsChange(c, 1, r)

SpecTrend == InitTrend /\ [][NextTrend]_vars

\* ------------------------------------------------------ alert thresholds
MetricNames == {"uptime", "success_rate", "cpu_load"}

\* the threshold, comparator and channel of a call
AlertSettings ==
    { <<95, "less_than", "email">>, <<90, "greater_than", "slack">> }

\* One registered client with one endpoint or none; the other client_id is
\* not registered.
InitAlert ==
    /\ \E cfg \in ClientConfigs :
        /\ cfg.nEndpoints \in {0, 1}
        /\ cfg.nSystems = cfg.nEndpoints
        /\ clients = [Unregistered EXCEPT !["acme"] = cfg]
        /\ mnet = [c \in ClientIds |->
                     IF c = "acme" THEN [i \in 1..cfg.nEndpoints |-> Steady] ELSE <<>>]
        /\ net = [c \in ClientIds |->
                    IF c = "acme" THEN [i \in 1..cfg.nEndpoints |-> Refusing] ELSE <<>>]
    /\ EmptyStores

NextAlert ==
    \E c \in ClientIds, metric \in MetricNames, setting \in AlertSettings :
        \E insertOk \in BOOLEAN, writeOk \in BOOLEAN :
            AlertOnFailures(c, metric, setting[1], setting[2], setting[3],
                            insertOk, TRUE, writeOk, {})

SpecAlert == InitAlert /\ [][NextAlert]_vars

\* ------------------------------------------------- reports of one client
ReportKinds == {"daily", "weekly", "monthly", "quarterly"}

\* One registered client with one endpoint, and a client_id that is not
\* registered; health checks, performance queries and reports of both.
InitReport ==
    /\ \E cfg \in ClientConfigs :
        /\ cfg.nEndpoints = 1
        /\ cfg.nSystems = 1
        /\ clients = [Unregistered EXCEPT !["acme"] = cfg]
    /\ \E answer \in {Refusing, Degraded, Healthy} :
        net = [c \in ClientIds |-> IF c = "acme" THEN <<answer>> ELSE <<>>]
    /\ mnet = [c \in ClientIds |-> IF c = "acme" THEN <<Steady>> ELSE <<>>]
    /\ EmptyStores

NextReport ==
    \/ \E c \in ClientIds, written \in SUBSET {1} : GetSystemHealth(c, TRUE, written)
    \/ \E c \in ClientIds, writeOk \in BOOLEAN :
        GetPerformanceMetrics(c, "24h", TRUE, writeOk, TRUE)
    \/ \E c \in ClientIds, report_type \in ReportKinds, include \in BOOLEAN :
        \E reportWriteOk \in BOOLEAN :
            GenerateClientReports(c, report_type, include, TRUE, {1}, TRUE, TRUE,
                                  reportWriteOk)

SpecReport == InitReport /\ [][NextReport]_vars

\* ------------------------------------------------------ the all-clients view
\* the client rows the view starts from: absent, active or deactivated, with
\* one endpoint or none
DashboardRows ==
    {NoClient}
    \cup {[registered |-> TRUE, nEndpoints |-> n, nSystems |-> n, is_active |-> a] :
            n \in 0..1, a \in BOOLEAN}

InitDashboard ==
    /\ clients \in [ClientIds -> DashboardRows]
    /\ \E answer \in [ClientIds -> {Refusing, Healthy}] :
        net = [c \in ClientIds |-> [i \in 1..clients[c].nEndpoints |-> answer[c]]]
    /\ mnet = [c \in ClientIds |-> [i \in 1..clients[c].nEndpoints |-> Steady]]
    /\ EmptyStores

NextDashboard ==
    \E include_inactive \in BOOLEAN, listOk \in BOOLEAN :
        \E writeOks \in SUBSET ClientIds :
            GetAllClientsStatus(include_inactive, listOk, ClientIds, writeOks)

SpecDashboard == InitDashboard /\ [][NextDashboard]_vars

\* --------------------------------------------- the endpoint loops in steps
FanOutTools == {"get_system_health", "get_performance_metrics"}

\* One registered client whose endpoints answer /health and /metrics in a
\* few ways; health checks and 24h performance queries, GET by GET.
InitFanOut ==
    /\ \E cfg \in ClientConfigs :
        /\ cfg.nEndpoints >= 1
        /\ cfg.nSystems = cfg.nEndpoints
        /\ clients = [Unregistered EXCEPT !["acme"] = cfg]
        /\ \E answers \in [1..cfg.nEndpoints -> {Refusing, Healthy}] :
            net = [c \in ClientIds |-> IF c = "acme" THEN answers ELSE <<>>]
        /\ mnet = [c \in ClientIds |->
                     IF c = "acme" THEN [i \in 1..cfg.nEndpoints |-> Steady] ELSE <<>>]
    /\ EmptyStores

NextFanOut ==
    \/ \E c \in ClientIds, op \in FanOutTools :
        BeginFanOut(c, op, IF op = "get_system_health" THEN "none" ELSE "24h", TRUE)
    \/ IssueProbe
    \/ \E i \in 1..MaxEndpoints, written \in BOOLEAN : ProbeAnswers(i, written)
    \/ FanOutReturns(TRUE, TRUE)

SpecFanOut == InitFanOut /\ [][NextFanOut]_vars

\* ------------------------------------------ trends over a stored history
\* more and cheaper work than Steady, and the same work at another cost
Cheap ==
    [kind |-> "ok200",
     body |-> [counters |-> Counters(Num(20), Num(10), Num(10), Num(80), Num(5)),
               gains |-> NoGains]]
Costly ==
    [kind |-> "ok200",
     body |-> [counters |-> Counters(Num(10), Num(5), Num(5), Num(50), Num(90)),
               gains |-> NoGains]]

\* the rows earlier calls stored for acme on the days 0 and 10
StoredRows ==
    {PerformanceRow(Snapshot("acme", d, Aggregate(<<r>>))) :
        d \in {0, 10}, r \in {Steady, Busy, Cheap, Costly}}

\* The snapshot table as earlier calls left it, in insertion order (so by
\* date), on day 10; the trends of acme over the short and the long window.
InitWindow ==
    /\ clients = [Unregistered EXCEPT !["acme"] =
                     [registered |-> TRUE, nEndpoints |-> 1, nSystems |-> 1,
                      is_active |-> TRUE]]
    /\ net = [c \in ClientIds |-> IF c = "acme" THEN <<Refusing>> ELSE <<>>]
    /\ mnet = [c \in ClientIds |-> IF c = "acme" THEN <<Steady>> ELSE <<>>]
    /\ today = 10
    /\ \E n \in 0..MaxStoredRows :
        /\ performance_metrics \in [1..n -> StoredRows]
        /\ \A i \in 1..(n - 1) :
            performance_metrics[i].metric_date <= performance_metrics[i + 1].metric_date
    /\ health_checks = <<>>
    /\ healthResult = NoHealthResult
    /\ performance_result = NoSnapshot
    /\ trends = NoTrend("none")
    /\ perfResult = NoPerfResult
    /\ alert_thresholds = <<>>
    /\ alert_history = <<>>
    /\ alertResult = NoAlertResult
    /\ client_reports = <<>>
    /\ reportResult = NoReportResult
    /\ clientsStatus = NoClientsStatus
    /\ requests = <<>>
    /\ fanout = NoFanOut
    /\ lastCall = NoCall

NextWindow ==
    \E timeframe \in {"24h", "90d"}, readOk \in BOOLEAN :
        CalculateTrends("acme", timeframe, readOk)

SpecWindow == InitWindow /\ [][NextWindow]_vars

\* ------------------------------------------- registrations and thresholds
\* From the empty database: clients are registered, with one endpoint or
\* none, and thresholds are configured for any client_id.
NextRegistry ==
    \/ \E c \in ClientIds, n \in 0..1 :
        RegisterClient(c, n, n, [i \in 1..n |-> Refusing], [i \in 1..n |-> Steady], 1..n)
    \/ \E c \in ClientIds, setting \in AlertSettings, insertOk \in BOOLEAN :
        AlertOnFailures(c, "success_rate", setting[1], setting[2], setting[3],
                        insertOk, TRUE, TRUE, {})

SpecRegistry == Init /\ [][NextRegistry]_vars

\* a get_system_health that found its client and returned a result
HealthServed ==
    /\ lastCall.op = "get_system_health"
    /\ lastCall.readOk
    /\ clients[lastCall.client_id].registered

Samples == healthResult.systems
HasStatus(st) == \E i \in 1..Len(Samples) : Samples[i].status = st

\* C1: whenever a health check returns a down sample, in any position, the
\* returned overall_status is down.
C1_DownDominates ==
    (HealthServed /\ HasStatus("down")) => healthResult.overall_status = "down"

\* the status the documented thresholds give an uptime
StatusOfUptime(uptime) ==
    IF uptime >= HealthyUptime THEN "healthy"
    ELSE IF uptime >= DegradedUptime THEN "degraded"
    ELSE "down"

\* C2: the sample of every HTTP-200 answer has the status of the documented
\* thresholds: healthy from 95, degraded from 80 up to 95, down below 80;
\* endpoints at 100 and 70 give overall down with one down and one healthy system.
C2_StatusFromUptime ==
    HealthServed =>
        /\ \A i \in 1..Len(Samples) :
              net[lastCall.client_id][i].kind = "ok200" =>
                  Samples[i].status = StatusOfUptime(Samples[i].uptime_percentage)
        /\ ( /\ Len(Samples) = 2
             /\ net[lastCall.client_id][1].kind = "ok200"
             /\ net[lastCall.client_id][2].kind = "ok200"
             /\ Samples[1].uptime_percentage = 100
             /\ Samples[2].uptime_percentage = 70 )
            => /\ healthResult.overall_status = "down"
               /\ healthResult.summary.down_systems = 1
               /\ healthResult.summary.healthy_systems = 1

\* C3: a health check that returns no down sample and at least one degraded
\* sample returns overall_status degraded, wherever the degraded sample stands.
C3_DegradedWithoutDown ==
    (HealthServed /\ ~HasStatus("down") /\ HasStatus("degraded"))
        => healthResult.overall_status = "degraded"

\* a degraded sample followed by a healthy one, and no down sample
C3_Witness ==
    /\ HealthServed
    /\ ~HasStatus("down")
    /\ \E i, j \in 1..Len(Samples) :
          i < j /\ Samples[i].status = "degraded" /\ Samples[j].status = "healthy"
    /\ healthResult.overall_status = "degraded"

\* C4: a health check of a registered client without endpoints returns a
\* result, not an error: overall_status healthy, every count 0 and an
\* avg_response_time of 0 that no division by zero produced.
C4_EmptyEndpointList ==
    (HealthServed /\ clients[lastCall.client_id].nEndpoints = 0) =>
        /\ healthResult.ret = "ok"
        /\ healthResult.overall_status = "healthy"
        /\ healthResult.summary.total_systems = 0
        /\ healthResult.summary.healthy_systems = 0
        /\ healthResult.summary.degraded_systems = 0
        /\ healthResult.summary.down_systems = 0
        /\ healthResult.summary.avg_response_time.num = 0
        /\ healthResult.summary.avg_response_time.den > 0

C4_Witness ==
    /\ HealthServed
    /\ clients[lastCall.client_id].nEndpoints = 0
    /\ healthResult.ret = "ok"
    /\ healthResult.systems = <<>>

\* a get_performance_metrics that found its client and built a snapshot
PerfServed ==
    /\ lastCall.op = "get_performance_metrics"
    /\ lastCall.readOk
    /\ clients[lastCall.client_id].registered

Answers == mnet[lastCall.client_id]

\* C6: the success_rate of every snapshot lies in [0, 100] and is 0 when the
\* aggregated total_automations is 0, whatever counters the endpoints report.
C6_SuccessRateRange ==
    PerfServed =>
        LET rate == performance_result.success_rate
        IN  /\ rate.num >= 0
            /\ rate.num <= 100 * rate.den
            /\ performance_result.total_automations = 0 => rate.num = 0

Permuted(resps, p) == [i \in 1..Len(resps) |-> resps[p[i]]]

\* C7: querying the endpoints in any other order yields the same counts,
\* processing time, cost savings and efficiency_gains.
C7_OrderIndependent ==
    PerfServed =>
        \A p \in Permutations(1..Len(Answers)) :
            Snapshot(lastCall.client_id, performance_result.timeframe_end,
                     Aggregate(Permuted(Answers, p))) = performance_result

\* the counter of a snapshot by its name in the endpoint's answer
SnapshotCounter(m, name) ==
    CASE name = "total_automations" -> m.total_automations
      [] name = "successful_automations" -> m.successful_automations
      [] name = "failed_automations" -> m.failed_automations
      [] name = "total_processing_time" -> m.avg_processing_time.num
      [] OTHER -> m.cost_savings

GainOf(body, key) ==
    IF body.gains.t = "dict" /\ \E k \in 1..Len(body.gains.items) : body.gains.items[k].key = key
    THEN body.gains.items[CHOOSE k \in 1..Len(body.gains.items) :
                              body.gains.items[k].key = key].val
    ELSE Missing

Answered200(r) == r.kind \in {"ok200", "bad200"}

RECURSIVE CounterSum(_, _)
CounterSum(resps, name) ==
    IF resps = <<>> THEN 0
    ELSE (IF Answered200(Head(resps)) THEN GetOr0(Head(resps).body.counters[name]).n ELSE 0)
         + CounterSum(Tail(resps), name)

RECURSIVE GainSum(_, _)
GainSum(resps, key) ==
    IF resps = <<>> THEN 0
    ELSE (IF Answered200(Head(resps)) THEN GainOf(Head(resps).body, key).n ELSE 0)
         + GainSum(Tail(resps), key)

CounterIsNumeric(resps, name) ==
    \A i \in 1..Len(resps) : resps[i].body.counters[name].t # "str"

GainIsNumeric(resps, key) ==
    \A i \in 1..Len(resps) : GainOf(resps[i].body, key).t # "str"

\* C8: every counter of the snapshot is the sum of that counter over the
\* endpoints that answered 200, every efficiency_gains key the sum of that
\* key over them; two endpoints at total 10, successful 9 give 20, 18 and 90.
C8_CountersAreSums ==
    PerfServed =>
        /\ \A k \in 1..Len(CounterNames) :
              CounterIsNumeric(Answers, CounterNames[k]) =>
                  SnapshotCounter(performance_result, CounterNames[k])
                      = CounterSum(Answers, CounterNames[k])
        /\ \A key \in GainKeys :
              (GainIsNumeric(Answers, key)
                  /\ performance_result.efficiency_gains[key].t # "missing") =>
                  performance_result.efficiency_gains[key] = Num(GainSum(Answers, key))
        /\ ( /\ Len(Answers) = 2
             /\ \A i \in 1..2 :
                  /\ Answers[i].kind = "ok200"
                  /\ Answers[i].body.counters["total_automations"] = Num(10)
                  /\ Answers[i].body.counters["successful_automations"] = Num(9) )
            => /\ performance_result.total_automations = 20
               /\ performance_result.successful_automations = 18
               /\ performance_result.success_rate.num
                      = 90 * performance_result.success_rate.den

Fails(r) == r.kind \in {"non200", "timeout", "transport"}

RECURSIVE Reachable(_)
Reachable(resps) ==
    IF resps = <<>> THEN <<>>
    ELSE (IF Fails(Head(resps)) THEN <<>> ELSE <<Head(resps)>>) \o Reachable(Tail(resps))

\* the snapshot is the aggregate of the endpoints that did not fail
FailuresSkipped ==
    PerfServed =>
        performance_result = Snapshot(lastCall.client_id, performance_result.timeframe_end,
                                      Aggregate(Reachable(Answers)))

\* C9: failing endpoints contribute nothing and do not stop the others, and
\* the call returns its snapshot, all zero and without gains when every
\* endpoint failed, not an error.
C9_FailuresSkipped ==
    PerfServed =>
        /\ perfResult.ret = "ok"
        /\ perfResult.metrics
              = Snapshot(lastCall.client_id, performance_result.timeframe_end,
                         Aggregate(Reachable(Answers)))
        /\ (\A i \in 1..Len(Answers) : Fails(Answers[i])) =>
              /\ perfResult.metrics.total_automations = 0
              /\ perfResult.metrics.successful_automations = 0
              /\ perfResult.metrics.failed_automations = 0
              /\ perfResult.metrics.cost_savings = 0
              /\ \A key \in GainKeys : perfResult.metrics.efficiency_gains[key] = Missing

\* a get_performance_metrics that reached calculate_performance_trends
TrendCalled == PerfServed

\* the rows of the client dated inside the lookback window of the last call
RowsInWindow ==
    {i \in 1..Len(performance_metrics) :
        /\ performance_metrics[i].client_id = lastCall.client_id
        /\ performance_metrics[i].metric_date
              >= performance_result.timeframe_end - PeriodDays(lastCall.timeframe)}

\* C10: with fewer than two rows of the client inside the lookback window the
\* trend is insufficient_data, and the calculation always returns a result
\* (a failing read gives the error result), it never raises.
C10_InsufficientData ==
    TrendCalled =>
        /\ trends.kind \in {"insufficient_data", "computed", "error"}
        /\ (lastCall.trendReadOk /\ Cardinality(RowsInWindow) < MinTrendRows)
              => trends.kind = "insufficient_data"
        /\ ~lastCall.trendReadOk => trends.kind = "error"

\* one row in the window and an older one outside it
C10_Witness ==
    /\ TrendCalled
    /\ lastCall.trendReadOk
    /\ Cardinality(RowsInWindow) = 1
    /\ \E i \in 1..Len(performance_metrics) :
          performance_metrics[i].client_id = lastCall.client_id /\ i \notin RowsInWindow
    /\ trends.kind = "insufficient_data"

\* C5: the threshold table never holds two rows for one (client_id,
\* metric_name), and the row it holds for the pair of the last successful
\* alert_on_failures carries that call's settings.
C5_OneThresholdPerPair ==
    \A i, j \in 1..Len(alert_thresholds) :
        ( /\ alert_thresholds[i].client_id = alert_thresholds[j].client_id
          /\ alert_thresholds[i].metric_name = alert_thresholds[j].metric_name )
            => i = j

\* an alert_on_failures that stored its threshold and returned
AlertConfigured ==
    /\ lastCall.op = "alert_on_failures"
    /\ alertResult.ret = "success"

\* the decision the documented comparison gives value v against threshold t
ClaimedToFire(comparison, v, t) ==
    \/ comparison = "greater_than" /\ v.num > t * v.den
    \/ comparison = "less_than" /\ v.num < t * v.den
    \/ comparison = "equals" /\ Abs(v.num - t * v.den) * 100 < v.den

\* C11: the test of a success_rate threshold of a registered client reports
\* would_alert, and reports it true exactly when the documented comparison of
\* the client's fresh success rate with the threshold holds.
C11_WouldAlertDecision ==
    ( /\ AlertConfigured
      /\ clients[alertResult.client_id].registered
      /\ alertResult.alert_config.metric_name = "success_rate" )
        => /\ alertResult.test_result.test_status = "success"
           /\ alertResult.test_result.would_alert
                = ClaimedToFire(alertResult.alert_config.comparison,
                                performance_result.success_rate,
                                alertResult.alert_config.threshold)

\* the comparison chain on its own agrees with the documented comparison
ComparisonChainAgrees ==
    \A comparison \in {"greater_than", "less_than", "equals", "at_least"} :
        \A v \in {Frac(90, 1), Frac(9002, 100), Frac(18001, 200), Frac(8999, 100)} :
            WouldAlert(comparison, v, 90) = ClaimedToFire(comparison, v, 90)

\* the endpoints of the client of the last call, as they answered /health
Probed == net[lastCall.client_id]

\* C12: every failing probe (non-200, timeout, transport error, 200 with an
\* unusable body) yields a down sample with uptime 0 and the call returns; a
\* timeout records 10000 ms, a transport error or unusable body 0 ms.
C12_FailuresAreDownSamples ==
    HealthServed =>
        /\ healthResult.ret = "ok"
        /\ \A i \in 1..Len(Probed) :
            Probed[i].kind # "ok200" =>
                /\ i <= Len(Samples)
                /\ Samples[i].status = "down"
                /\ Samples[i].uptime_percentage = 0
                /\ Probed[i].kind = "timeout" => Samples[i].response_time_ms = 10000
                /\ Probed[i].kind \in {"transport", "bad200"}
                      => Samples[i].response_time_ms = 0

C12_Witness ==
    /\ HealthServed
    /\ Len(Probed) = 2
    /\ Probed[1].kind = "timeout"
    /\ Probed[2].kind = "bad200"
    /\ Samples[1].response_time_ms = 10000
    /\ Samples[2].status = "down"

\* C13: a health check of a client with n endpoints probes each endpoint once,
\* in order, and returns n samples, sample i being that of endpoint i,
\* whichever endpoints fail.
C13_OneSamplePerEndpoint ==
    HealthServed =>
        /\ Len(Samples) = clients[lastCall.client_id].nEndpoints
        /\ Len(requests) = Len(Samples)
        /\ \A i \in 1..Len(Samples) :
            /\ Samples[i].system_name.idx = i
            /\ requests[i].endpoint = i
            /\ requests[i].path = "health"
            /\ (Samples[i].error_message = "none") <=> (Probed[i].kind = "ok200")

C13_Witness ==
    /\ HealthServed
    /\ Len(Probed) = 2
    /\ Probed[1].kind = "timeout"
    /\ Probed[2].kind = "ok200"
    /\ Len(Samples) = 2
    /\ Samples[1].status = "down"
    /\ Samples[2].status = "healthy"

\* the row of each returned sample
SampleRows ==
    [i \in 1..Len(Samples) |->
        [client_id |-> healthResult.client_id,
         system_name |-> Samples[i].system_name, status |-> Samples[i].status]]

\* C14: a health check that returns n samples leaves the health-check store
\* with the rows it had, followed by one row per returned sample.
C14_SamplesPersisted ==
    [][HealthServed' => health_checks' = health_checks \o SampleRows']_vars

\* when a health check added as many rows as it returned samples, the rows
\* are those of the samples, after the rows the store had
SamplesPersistedWhenWritten ==
    [][(HealthServed' /\ Len(health_checks') = Len(health_checks) + Len(Samples'))
          => health_checks' = health_checks \o SampleRows']_vars

\* a call of one of the three per-client queries for a client_id that is not
\* registered
NotFoundCall ==
    /\ lastCall.op \in {"get_system_health", "get_performance_metrics",
                        "generate_client_reports"}
    /\ ~clients[lastCall.client_id].registered

\* the last call returned the error result for its client_id
NotFoundResult ==
    /\ lastCall.op = "get_system_health"
          => healthResult.ret = "error" /\ healthResult.client_id = lastCall.client_id
    /\ lastCall.op = "get_performance_metrics"
          => perfResult.ret = "error" /\ perfResult.client_id = lastCall.client_id
    /\ lastCall.op = "generate_client_reports"
          => reportResult.ret = "error" /\ reportResult.client_id = lastCall.client_id

\* C15: a health check, performance query or report for a client_id that is
\* not registered returns the error result, sends no request and leaves the
\* health-check, snapshot and report stores as they were.
C15_UnknownClient ==
    [][NotFoundCall' =>
          /\ NotFoundResult'
          /\ requests' = <<>>
          /\ UNCHANGED <<health_checks, performance_metrics, client_reports>>]_vars

C15_Witness ==
    /\ NotFoundCall
    /\ lastCall.op = "generate_client_reports"
    /\ reportResult.ret = "error"
    /\ requests = <<>>
    /\ health_checks # <<>>
    /\ performance_metrics # <<>>

\* C17: a report generated for a registered client succeeds and leaves the
\* report store with the rows it had followed by exactly one new row.
C17_ReportAppended ==
    [][(lastCall'.op = "generate_client_reports"
          /\ clients[lastCall'.client_id].registered)
        => /\ reportResult'.ret = "success"
           /\ Len(client_reports') = Len(client_reports) + 1
           /\ SubSeq(client_reports', 1, Len(client_reports)) = client_reports]_vars

\* a get_all_clients_status whose SELECT of the clients worked
DashboardServed ==
    /\ lastCall.op = "get_all_clients_status"
    /\ lastCall.readOk

\* the client rows the query selects
SelectedClients ==
    {c \in ClientIds : /\ clients[c].registered
                       /\ (clientsStatus.include_inactive \/ clients[c].is_active)}

Entries == clientsStatus.clients

\* the worst-first status the endpoints of client c give
OwnStatus(c) == OverallStatus(HealthSamples(clients[c], net[c]), StartStatus)

\* C16: the all-clients view returns, and holds exactly one entry per selected
\* client; every selected client was probed, whatever happened to the clients
\* before it, and its entry is either flagged error or carries the status of
\* its own endpoints.
C16_OneEntryPerClient ==
    DashboardServed =>
        /\ clientsStatus.ret = "ok"
        /\ Len(Entries) = Cardinality(SelectedClients)
        /\ \A i \in 1..Len(Entries) : Entries[i].client_id \in SelectedClients
        /\ \A c \in SelectedClients :
            /\ Cardinality({i \in 1..Len(Entries) : Entries[i].client_id = c}) = 1
            /\ \A k \in 1..clients[c].nEndpoints :
                \E j \in 1..Len(requests) :
                    requests[j] = [client_id |-> c, endpoint |-> k, path |-> "health"]
        /\ \A i \in 1..Len(Entries) :
            Entries[i].overall_status \in {"error", OwnStatus(Entries[i].client_id)}

C16_Witness ==
    /\ DashboardServed
    /\ Len(Entries) = 2
    /\ Entries[1].client_id = "acme"
    /\ Entries[1].overall_status = "error"
    /\ Entries[2].client_id = "globex"
    /\ \E j \in 1..Len(requests) :
        requests[j] = [client_id |-> "globex", endpoint |-> 1, path |-> "health"]
    /\ \E j \in 1..Len(health_checks) : health_checks[j].client_id = "globex"

\* C18: an alert_on_failures for a client_id that is not registered returns
\* an error result, not status success.
C18_UnregisteredIsError ==
    (lastCall.op = "alert_on_failures" /\ ~clients[lastCall.client_id].registered)
        => alertResult.ret = "error"

\* the threshold row the step under way has just stored
StoredNow ==
    /\ lastCall'.op = "alert_on_failures"
    /\ Len(alert_thresholds') = Len(alert_thresholds) + 1

NewThreshold == alert_thresholds[Len(alert_thresholds)]

\* no value can be resolved for the metric of this threshold row
Unresolvable(row) ==
    \/ row.metric_name \notin {"success_rate", "response_time", "uptime"}
    \/ row.metric_name = "uptime" /\ clients[row.client_id].nEndpoints = 0

\* C19: the test of a threshold on an unknown metric, or on uptime for a
\* client without systems, returns (alert_on_failures answers success) an
\* error result with no current value and no would_alert decision.
C19_NoDecisionWithoutValue ==
    [][(StoredNow /\ Unresolvable(NewThreshold'))
        => /\ alertResult'.ret = "success"
           /\ alertResult'.test_result.test_status = "error"
           /\ ~alertResult'.test_result.current_value.has
           /\ ~alertResult'.test_result.would_alert]_vars

C19_Witness ==
    /\ AlertConfigured
    /\ clients[alertResult.client_id].registered
    /\ clients[alertResult.client_id].nEndpoints = 0
    /\ alertResult.alert_config.metric_name = "uptime"
    /\ alertResult.test_result.test_status = "error"
    /\ Len(alert_thresholds) = 2
    /\ alert_thresholds[1].metric_name = "cpu_load"

\* the documented comparison of the stored threshold holds for the fresh
\* success rate of its registered client
FiresNow ==
    /\ StoredNow
    /\ NewThreshold'.metric_name = "success_rate"
    /\ clients[NewThreshold'.client_id].registered
    /\ ClaimedToFire(NewThreshold'.comparison, performance_result'.success_rate,
                     NewThreshold'.threshold_value)

\* C20: the alert history only grows at its end, and the evaluation of a
\* stored threshold that fires appends an event with the client, the
\* threshold and the actual value.
C20_FiredAlertsRecorded ==
    [][/\ Len(alert_history') >= Len(alert_history)
       /\ SubSeq(alert_history', 1, Len(alert_history)) = alert_history
       /\ FiresNow =>
            /\ Len(alert_history') = Len(alert_history) + 1
            /\ alert_history'[Len(alert_history')].client_id = NewThreshold'.client_id
            /\ alert_history'[Len(alert_history')].threshold_value
                  = NewThreshold'.threshold_value
            /\ alert_history'[Len(alert_history')].actual_value
                  = performance_result'.success_rate]_vars

\* a GET of the loop under way that has not ended yet
InFlight(i) == i \in fanout.inFlight

\* C21: the probes of one health check or performance query are not fully
\* serialized: while the probe of endpoint i is in flight and endpoint i+1
\* exists, the probe of endpoint i+1 can be issued.
C21_ProbesOverlap ==
    \A i \in 1..MaxEndpoints :
        (InFlight(i) /\ i < clients[fanout.client_id].nEndpoints) => ENABLED IssueProbe

\* the loops keep at most one probe of a call in flight
ProbesSerialized == Cardinality(fanout.inFlight) <= 1

\* the step under way is a get_system_health of a registered client in which
\* an INSERT of store_health_check failed
HealthWriteFailed ==
    /\ lastCall'.op = "get_system_health"
    /\ clients[lastCall'.client_id].registered
    /\ Len(health_checks') < Len(health_checks) + Len(healthResult'.systems)

\* the step under way is a get_performance_metrics of a registered client in
\* which the INSERT of store_performance_metrics failed
PerfWriteFailed ==
    /\ lastCall'.op = "get_performance_metrics"
    /\ clients[lastCall'.client_id].registered
    /\ performance_metrics' = performance_metrics

\* how the same get_performance_metrics ends when its INSERT works
PerfResultWhenWritten ==
    PerformanceOutcome([performance_metrics |-> performance_metrics,
                        performance_result |-> performance_result,
                        trends |-> trends, perfResult |-> perfResult],
                       lastCall'.client_id, clients[lastCall'.client_id],
                       mnet[lastCall'.client_id], lastCall'.timeframe, today,
                       TRUE, TRUE).perfResult

\* C22: a failed store write shows in the result of the call (it is not the
\* result the call gives when the write works), and every endpoint of the
\* client is still probed.
C22_WriteFailureSurfaced ==
    [][/\ HealthWriteFailed =>
            /\ healthResult' # SystemHealth(lastCall'.client_id,
                                            clients[lastCall'.client_id],
                                            net[lastCall'.client_id])
            /\ Len(requests') = clients[lastCall'.client_id].nEndpoints
       /\ PerfWriteFailed =>
            /\ perfResult' # PerfResultWhenWritten
            /\ Len(requests') = clients[lastCall'.client_id].nEndpoints]_vars

\* whether or not a write fails, every endpoint is probed and reported
SiblingsStillProbed ==
    [][(HealthWriteFailed \/ PerfWriteFailed) =>
            /\ Len(requests') = clients[lastCall'.client_id].nEndpoints
            /\ HealthWriteFailed =>
                  Len(healthResult'.systems) = clients[lastCall'.client_id].nEndpoints]_vars

\* a calculate_performance_trends whose SELECT worked
TrendComputed ==
    /\ lastCall.op = "calculate_performance_trends"
    /\ lastCall.trendReadOk

\* the stored rows of the client inside the lookback window of that call
Window ==
    {i \in 1..Len(performance_metrics) :
        /\ performance_metrics[i].client_id = lastCall.client_id
        /\ performance_metrics[i].metric_date >= today - PeriodDays(lastCall.timeframe)}

Earliest == CHOOSE i \in Window : \A j \in Window : i <= j
Latest == CHOOSE i \in Window : \A j \in Window : i >= j

\* C23: with two or more rows in the window the trend is computed from the
\* earliest-dated and the latest-dated row alone, and its direction is up,
\* down or stable as the latest total_automations is above, below or equal
\* to the earliest, whatever the other columns and the rows in between hold.
C23_DirectionFromEnds ==
    (TrendComputed /\ Cardinality(Window) >= MinTrendRows) =>
        LET first == performance_metrics[Earliest]
            last == performance_metrics[Latest]
        IN  /\ trends.kind = "computed"
            /\ \A j \in Window :
                /\ first.metric_date <= performance_metrics[j].metric_date
                /\ last.metric_date >= performance_metrics[j].metric_date
            /\ trends.trend_direction =
                  (IF last.total_automations > first.total_automations THEN "up"
                   ELSE IF last.total_automations < first.total_automations THEN "down"
                   ELSE "stable")

\* three rows in the window: the total is the same at both ends, higher in
\* between, and the cost savings rise
C23_Witness ==
    /\ TrendComputed
    /\ Cardinality(Window) = 3
    /\ performance_metrics[1].total_automations = 10
    /\ performance_metrics[2].total_automations = 20
    /\ performance_metrics[3].total_automations = 10
    /\ performance_metrics[1].metric_date < performance_metrics[3].metric_date
    /\ trends.cost_savings_trend.num > 0
    /\ trends.success_rate_trend.num < 0
    /\ trends.trend_direction = "stable"

\* the step under way is a get_performance_metrics of a registered client
PerfStep ==
    /\ lastCall'.op = "get_performance_metrics"
    /\ clients[lastCall'.client_id].registered

\* the table keeps its rows and gains one, keyed by the client and the day
OneRowAppended ==
    /\ Len(performance_metrics') = Len(performance_metrics) + 1
    /\ SubSeq(performance_metrics', 1, Len(performance_metrics)) = performance_metrics
    /\ performance_metrics'[Len(performance_metrics')].client_id = lastCall'.client_id
    /\ performance_metrics'[Len(performance_metrics')].metric_date = today

\* C24: every get_performance_metrics of a registered client appends exactly
\* one snapshot row keyed by (client_id, date of the window end) and changes
\* no row already stored, whatever its timeframe.
C24_OneRowPerCall ==
    [][PerfStep => OneRowAppended]_vars

\* a call either appends its one row or, when its INSERT failed, leaves the
\* table as it was; it never updates a row
OneRowPerCallWhenWritten ==
    [][PerfStep => (OneRowAppended \/ UNCHANGED performance_metrics)]_vars

\* the step under way is a generate_client_reports of a registered client
ReportStep ==
    /\ lastCall'.op = "generate_client_reports"
    /\ clients[lastCall'.client_id].registered

\* the window the claim gives the performance aggregation of a report
LongWindow(report_type) == IF report_type = "quarterly" THEN "90d" ELSE "30d"

\* how many GETs of a path the call sent to endpoint k of client c
GetsSent(reqs, c, k, path) ==
    Cardinality({j \in 1..Len(reqs) :
                    reqs[j] = [client_id |-> c, endpoint |-> k, path |-> path]})

\* C25: a report runs one health aggregation and one performance aggregation
\* (each endpoint gets one /health and one /metrics GET, one sample row per
\* endpoint and one snapshot row are stored), and the performance aggregation
\* is asked for 90d when the kind is quarterly and for 30d when it is daily,
\* weekly or monthly.
C25_OneAggregationEach ==
    [][ReportStep =>
          LET c == lastCall'.client_id
              n == clients[c].nEndpoints
          IN  /\ reportResult'.report_type \in ReportTypes
              /\ Len(requests') = 2 * n
              /\ \A k \in 1..n : /\ GetsSent(requests', c, k, "health") = 1
                                 /\ GetsSent(requests', c, k, "metrics") = 1
              /\ healthResult'.ret = "ok"
              /\ healthResult'.client_id = c
              /\ Len(health_checks') = Len(health_checks) + n
              /\ perfResult'.client_id = c
              /\ perfResult'.timeframe = LongWindow(reportResult'.report_type)
              /\ Len(performance_metrics') = Len(performance_metrics) + 1]_vars

\* a weekly report, whose own period is 7 days, asked for the 30d aggregation
C25_Witness ==
    /\ lastCall.op = "generate_client_reports"
    /\ clients[lastCall.client_id].registered
    /\ reportResult.report_type = "weekly"
    /\ perfResult.timeframe = "30d"
    /\ Len(requests) = 2
    /\ Len(performance_metrics) = 2

\* the returned samples with status st
SamplesWith(st) == {i \in 1..Len(Samples) : Samples[i].status = st}

\* C26: the summary of a health check counts every sample once: total_systems
\* is the number of registered endpoints and the sum of healthy_systems,
\* degraded_systems and down_systems, each the number of returned samples
\* with that status.
C26_SummaryPartitions ==
    HealthServed =>
        LET summary == healthResult.summary
        IN  /\ summary.total_systems = clients[lastCall.client_id].nEndpoints
            /\ summary.total_systems = summary.healthy_systems
                                        + summary.degraded_systems
                                        + summary.down_systems
            /\ summary.healthy_systems = Cardinality(SamplesWith("healthy"))
            /\ summary.degraded_systems = Cardinality(SamplesWith("degraded"))
            /\ summary.down_systems = Cardinality(SamplesWith("down"))

\* one degraded and one down sample
C26_Witness ==
    /\ HealthServed
    /\ healthResult.summary.total_systems = 2
    /\ healthResult.summary.healthy_systems = 0
    /\ healthResult.summary.degraded_systems = 1
    /\ healthResult.summary.down_systems = 1

\* the rows the table held for the client of the step under way
RowsBefore ==
    {i \in 1..Len(performance_metrics) :
        performance_metrics[i].client_id = lastCall'.client_id}

\* the step is the first get_performance_metrics of its client, or the
\* second one on the day of the first, and its reads and its write work
FirstCall == PerfStep /\ lastCall'.trendReadOk /\ OneRowAppended /\ RowsBefore = {}
SecondCallSameDay ==
    /\ PerfStep /\ lastCall'.trendReadOk /\ OneRowAppended
    /\ Cardinality(RowsBefore) = 1
    /\ \A i \in RowsBefore : performance_metrics[i].metric_date = today

\* C27: the snapshot is stored before the trends are computed, so the trend a
\* call returns has read the call's own row: the first call of a client
\* returns insufficient_data, the second call on the same day a computed trend.
C27_TrendReadsOwnRow ==
    [][/\ FirstCall => /\ perfResult'.ret = "ok"
                       /\ perfResult'.trends.kind = "insufficient_data"
       /\ SecondCallSameDay => /\ perfResult'.ret = "ok"
                               /\ perfResult'.trends.kind = "computed"]_vars

\* the trend the call computed, returned or not, has read the call's own row
ComputedTrendReadsOwnRow ==
    [][/\ FirstCall => trends'.kind = "insufficient_data"
       /\ SecondCallSameDay => trends'.kind = "computed"]_vars

\* every counter and every efficiency gain of the body can be added to agg
Mergeable(agg, body) ==
    /\ \A k \in 1..Len(CounterNames) : GetOr0(body.counters[CounterNames[k]]).t = "num"
    /\ body.gains.t \in {"dict", "missing"}
    /\ \A k \in 1..Len(body.gains.items) :
          LET cur == agg.efficiency_gains[body.gains.items[k].key]
          IN  cur.t = "missing" \/ CanAdd(cur, body.gains.items[k].val)

\* the aggregate when every endpoint is merged whole or not at all
RECURSIVE AtomicAggregate(_, _)
AtomicAggregate(agg, resps) ==
    IF resps = <<>> THEN agg
    ELSE AtomicAggregate(IF Head(resps).kind = "ok200" /\ Mergeable(agg, Head(resps).body)
                         THEN MergeEndpoint(agg, Head(resps))
                         ELSE agg,
                         Tail(resps))

\* C28: every endpoint contributes all of its counters and efficiency gains
\* to the aggregate or none of them: an endpoint whose merge fails part-way
\* leaves the aggregate as it was before that endpoint.
C28_EndpointAtomic ==
    PerfServed =>
        performance_result
            = Snapshot(lastCall.client_id, performance_result.timeframe_end,
                       AtomicAggregate(AggregateStart, Answers))

\* endpoints whose whole body can be merged contribute all of it
WholeWhenMergeable ==
    (PerfServed /\ \A i \in 1..Len(Answers) :
                      Answers[i].kind = "ok200"
                          => Mergeable(AggregateFrom(AggregateStart,
                                                     SubSeq(Answers, 1, i - 1)),
                                       Answers[i].body))
        => performance_result
              = Snapshot(lastCall.client_id, performance_result.timeframe_end,
                         AtomicAggregate(AggregateStart, Answers))

\* the worst status of a sequence of samples under down > degraded > healthy
Worst(samples) ==
    IF \E i \in 1..Len(samples) : samples[i].status = "down" THEN "down"
    ELSE IF \E i \in 1..Len(samples) : samples[i].status = "degraded" THEN "degraded"
    ELSE "healthy"

\* what the dashboard makes of the samples of the last health check
DashboardStatus == DashboardOverall(NewestCheckFirst(Samples), StartStatus)

\* C29: the overall status a health check returns is the overall status the
\* dashboard's rollup computes from the same samples, and both are the worst
\* status among them.
C29_RollupsAgree ==
    HealthServed =>
        /\ healthResult.overall_status = DashboardStatus
        /\ DashboardStatus = Worst(Samples)

\* the dashboard's rollup on its own is the worst status
DashboardIsWorst ==
    HealthServed => DashboardStatus = Worst(Samples)

\* C30: every stored alert threshold belongs to a registered client; an
\* alert_on_failures for a client_id that is not registered stores nothing.
C30_ThresholdsOfRegisteredClients ==
    \A i \in 1..Len(alert_thresholds) : clients[alert_thresholds[i].client_id].registered

\* clients, once registered, stay registered
RegistrationsKept ==
    [][\A c \in ClientIds : clients[c].registered => clients'[c].registered]_vars
====
